---------------------------- MODULE Spec2Model ----------------------------
(***************************************************************************)
(* Model of make_request (src/action.py): one HTTP call with retry on 429  *)
(* and 5xx, exponential backoff, redirect chasing by recursion and error   *)
(* classification.                                                         *)
(*                                                                         *)
(* The transport, opener.open(request) at line 94, is the environment.  It *)
(* has the three kinds of outcome the code distinguishes:                  *)
(*   - it returns a response object (status, header fields, body); the     *)
(*     code provides for 2xx (returned) and 3xx (line 144) on this path,   *)
(*     every other status is reported by urllib as an HTTPError;           *)
(*   - it raises urllib.error.HTTPError (status or None, body);            *)
(*   - it raises another exception (urllib.error.URLError for a refused    *)
(*     connection or a failed TLS handshake), which line 100 does not      *)
(*     catch.                                                              *)
(*                                                                         *)
(* Optional values are sets: None is {} and a present value v is {v}.      *)
(* A dict is a sequence of <<key, value>> pairs with pairwise distinct     *)
(* keys, in insertion order.                                               *)
(***************************************************************************)
EXTENDS Integers, Sequences, FiniteSets, TLC

VARIABLES
    caller,           \* the keyword arguments of the outermost call
    url, data, headers, method, num_retries, ssl_compat_mode,
                      \* the parameters of the current invocation
    retry_count,      \* line 91
    wait_for,         \* line 120, {} while not sleeping
    pc,               \* "open" | "sleep" | "returned" | "raised"
    outcome,          \* what the last opener.open did
    result,           \* what the outermost call returned or raised
    hop,              \* depth of the recursion of line 146
    dispatches,       \* opener.open calls of the current invocation
    waits             \* seconds slept by the current invocation, in order

vars == <<caller, url, data, headers, method, num_retries, ssl_compat_mode,
          retry_count, wait_for, pc, outcome, result, hop, dispatches, waits>>

(***************************************************************************)
(* Bounds of the model.                                                    *)
(***************************************************************************)
MaxBudget == 2        \* the caller passes num_retries in 0..MaxBudget
MaxHops == 2          \* redirect hops followed in one call

(***************************************************************************)
(* Program constants.                                                      *)
(***************************************************************************)
DefaultNumRetries == 3
SecondsPerMinute == 60

None == {}
Some(v) == {v}
Val(o) == CHOOSE v \in o : TRUE

DefaultContentType == "application/json; charset=utf8"

(***************************************************************************)
(* dict operations                                                         *)
(***************************************************************************)
\* k in d
HasKey(d, k) == \E i \in DOMAIN d : d[i][1] = k

\* d[k], for k in d
GetItem(d, k) == d[CHOOSE i \in DOMAIN d : d[i][1] = k][2]

\* variant of d[k] = v that keeps the value of a present key
SetItem_KeepFirst(d, k, v) ==
    IF \E i \in DOMAIN d : d[i][1] = k THEN d ELSE Append(d, <<k, v>>)

\* d[k] = v : replaces the value of a present key, appends a new key
SetItem(d, k, v) ==
    IF HasKey(d, k)
    THEN [i \in DOMAIN d |-> IF d[i][1] = k THEN <<k, v>> ELSE d[i]]
    ELSE Append(d, <<k, v>>)

\* {k: v for k, v in items}: a later field replaces an earlier one of the
\* same name (names compared exactly, case included)
RECURSIVE DictFromItems(_)
DictFromItems(items) ==
    IF items = <<>> THEN <<>>
    ELSE LET n == Len(items)
         IN  SetItem(DictFromItems(SubSeq(items, 1, n - 1)),
                     items[n][1], items[n][2])

(***************************************************************************)
(* urllib.request.Request, lines 80-85                                     *)
(***************************************************************************)
\* str.capitalize() on the header names of the model
Capitalize(k) ==
    CASE k = "Content-Type" -> "Content-type"
      [] k = "content-type" -> "Content-type"
      [] k = "X-Trace"      -> "X-trace"
      [] OTHER              -> k

\* Request.add_header for every item of headers, in order
RECURSIVE RequestHeaders(_)
RequestHeaders(h) ==
    IF h = <<>> THEN <<>>
    ELSE LET n == Len(h)
         IN  SetItem(RequestHeaders(SubSeq(h, 1, n - 1)),
                     Capitalize(h[n][1]), h[n][2])

\* Request.get_method
GetMethod(m, d) ==
    IF m # None THEN Val(m) ELSE IF d # None THEN "POST" ELSE "GET"

\* the request handed to opener.open and the TLS context of the opener
Request(u, d, h, m) ==
    [url |-> u, data |-> d, headers |-> RequestHeaders(h),
     method |-> GetMethod(m, d)]

SslContext(compat) == IF compat THEN "SSLv23 DEFAULT:!DH" ELSE "default"

request == Request(url, data, headers, method)
ssl_context == SslContext(ssl_compat_mode)

(***************************************************************************)
(* lines 67-71: the headers of an invocation                               *)
(***************************************************************************)
EnterHeaders(h) ==
    LET h1 == IF h = None THEN <<>> ELSE Val(h)
    IN  IF ~HasKey(h1, "Content-Type")
        THEN SetItem(h1, "Content-Type", DefaultContentType)
        ELSE h1

(***************************************************************************)
(* The inputs                                                              *)
(***************************************************************************)
Urls == {"X", "Y", "Z"}
CallerUrls == {"X"}
Bodies == {"b1", "b2"}
CallerData == {None, Some("d1")}
CallerMethods == {None, Some("PUT")}
CallerHeaders ==
    { None,
      Some(<< <<"Content-Type", "text/plain">> >>),
      Some(<< <<"content-type", "text/plain">> >>),
      Some(<< <<"X-Trace", "1">> >>) }

ReturnedStatuses == {200, 299, 300, 399}
ErrorStatuses == {199, 302, 399, 400, 404, 429, 430, 499, 500, 599, 600}

\* the header fields of a returned response, in the order received: none,
\* one Location, a lower-case location, and repeated fields
RespHeaders ==
    { <<>>,
      << <<"Location", "Y">> >>,
      << <<"Location", "Z">> >>,
      << <<"location", "Y">> >>,
      << <<"Location", "Y">>, <<"Location", "Z">> >>,
      << <<"Location", "Z">>, <<"location", "Y">> >> }

NoOutcome == [kind |-> "none", status |-> None, headers |-> <<>>,
              body |-> None]
NoResult == [kind |-> "none", msg |-> <<>>, status_code |-> None,
             headers |-> <<>>, body |-> None]

(***************************************************************************)
(* Classification of a status, as the code tests it                        *)
(***************************************************************************)
\* variant of line 110 that retries every status from 429 up to 599
IsRetryable_From429(s) == s >= 429 /\ s < 600

\* line 110
IsRetryable(s) == s = 429 \/ (s >= 500 /\ s < 600)
\* variant of line 124 without the lower bound
IsClientError_NoLowerBound(s) == s < 500

\* line 124, reached when line 110 is false
IsClientError(s) == s >= 400 /\ s < 500
\* variant of line 144 that leaves out status 300
IsRedirect_Above300(s) == s > 300 /\ s < 400

\* variant of line 144 that leaves out status 399
IsRedirect_Below399(s) == s >= 300 /\ s < 399

\* line 144
IsRedirect(s) == s >= 300 /\ s < 400

\* variant of line 113 that gives up one retry early
BudgetSpent_OneEarly(rc, n) == rc >= n

\* variant of line 113 that allows one retry more
BudgetSpent_OneLate(rc, n) == rc > n + 1

\* line 113
BudgetSpent(rc, n) == rc > n

\* variant of line 120 that counts the first retry as attempt 0
WaitFor_FromZero(n) == 2 ^ (n - 1)

\* line 120
WaitFor(n) == 2 ^ n

\* line 122: the argument of sleep
SleepSeconds(w) == w * SecondsPerMinute

\* variant of lines 146-151 that drops the body on a redirect
RedirectCall_DropBody(location, d, h, m) ==
    [url |-> location, data |-> {}, headers |-> {h}, method |-> m,
     num_retries |-> DefaultNumRetries, ssl_compat_mode |-> FALSE]

\* lines 146-151: the keyword arguments of the recursive call; num_retries
\* and ssl_compat_mode are not passed and take their defaults (lines 47-48)
RedirectCall(location, d, h, m) ==
    [url |-> location, data |-> d, headers |-> Some(h), method |-> m,
     num_retries |-> DefaultNumRetries, ssl_compat_mode |-> FALSE]

\* variant of lines 126-129 without the url of line 129
ErrMsg_NoUrl(s, u) == <<"HTTP Error", {s}, {}>>

\* lines 126-129
ErrMsg(s, u) ==
    IF s = 404 THEN <<"HTTP Error", Some(s), Some(u)>>
    ELSE <<"HTTP Error", Some(s), None>>

HttpError(msg, status_code, body) ==
    [kind |-> "HttpError", msg |-> msg, status_code |-> status_code,
     headers |-> <<>>, body |-> body]

\* lines 95-99
HttpResponse(status, hdrs, body) ==
    [kind |-> "HttpResponse", msg |-> <<>>, status_code |-> Some(status),
     headers |-> DictFromItems(hdrs), body |-> Some(body)]

(***************************************************************************)
(* Init: the outermost call has run lines 67-91 and is about to dispatch   *)
(***************************************************************************)
Init ==
    /\ caller \in [url : CallerUrls, data : CallerData,
                   headers : CallerHeaders, method : CallerMethods,
                   num_retries : 0..MaxBudget,
                   ssl_compat_mode : BOOLEAN]
    /\ url = caller.url
    /\ data = caller.data
    /\ headers = EnterHeaders(caller.headers)
    /\ method = caller.method
    /\ num_retries = caller.num_retries
    /\ ssl_compat_mode = caller.ssl_compat_mode
    /\ retry_count = 0
    /\ wait_for = None
    /\ pc = "open"
    /\ outcome = NoOutcome
    /\ result = NoResult
    /\ hop = 0
    /\ dispatches = 0
    /\ waits = <<>>

Terminate(kind, res) ==
    /\ pc' = kind
    /\ result' = res
    /\ wait_for' = None
    /\ UNCHANGED <<caller, url, data, headers, method, num_retries,
                   ssl_compat_mode, hop, waits>>

(***************************************************************************)
(* lines 94-99, 144, 152: opener.open returns a response which is not a    *)
(* redirect                                                                *)
(***************************************************************************)
ReturnResponse ==
    /\ pc = "open"
    /\ \E s \in ReturnedStatuses, h \in RespHeaders, b \in Bodies :
         /\ ~IsRedirect(s)
         /\ outcome' = [kind |-> "response", status |-> Some(s),
                        headers |-> h, body |-> Some(b)]
         /\ dispatches' = dispatches + 1
         /\ retry_count' = retry_count
         /\ Terminate("returned", HttpResponse(s, h, b))

(***************************************************************************)
(* variant of the redirect that goes on in the same loop and keeps the     *)
(* retry count of the hop it leaves                                        *)
(***************************************************************************)
FollowRedirect_CarryRetries ==
    /\ pc = "open"
    /\ hop < MaxHops
    /\ \E s \in ReturnedStatuses, h \in RespHeaders, b \in Bodies :
         /\ IsRedirect(s)
         /\ HasKey(DictFromItems(h), "Location")
         /\ outcome' = [kind |-> "response", status |-> Some(s),
                        headers |-> h, body |-> Some(b)]
         /\ url' = GetItem(DictFromItems(h), "Location")
         /\ num_retries' = DefaultNumRetries
         /\ ssl_compat_mode' = FALSE
         /\ hop' = hop + 1
         /\ dispatches' = 0
         /\ waits' = <<>>
         /\ UNCHANGED <<caller, data, headers, method, retry_count, wait_for,
                        pc, result>>

(***************************************************************************)
(* lines 94-99, 144-151: opener.open returns a 3xx response; the call      *)
(* recurses with url=response.headers["Location"], data, headers, method   *)
(* and the defaults of every other parameter                               *)
(***************************************************************************)
FollowRedirect ==
    /\ pc = "open"
    /\ hop < MaxHops
    /\ \E s \in ReturnedStatuses, h \in RespHeaders, b \in Bodies :
         /\ IsRedirect(s)
         /\ HasKey(DictFromItems(h), "Location")
         /\ outcome' = [kind |-> "response", status |-> Some(s),
                        headers |-> h, body |-> Some(b)]
         /\ LET call == RedirectCall(GetItem(DictFromItems(h), "Location"),
                                     data, headers, method)
            IN  /\ url' = call.url
                /\ data' = call.data
                /\ headers' = EnterHeaders(call.headers)
                /\ method' = call.method
                /\ num_retries' = call.num_retries
                /\ ssl_compat_mode' = call.ssl_compat_mode
         /\ retry_count' = 0
         /\ hop' = hop + 1
         /\ dispatches' = 0
         /\ waits' = <<>>
         /\ wait_for' = None
         /\ pc' = "open"
         /\ UNCHANGED <<caller, result>>

(***************************************************************************)
(* line 147: a 3xx response without a "Location" key: the subscript raises *)
(* KeyError                                                                *)
(***************************************************************************)
RedirectKeyError ==
    /\ pc = "open"
    /\ \E s \in ReturnedStatuses, h \in RespHeaders, b \in Bodies :
         /\ IsRedirect(s)
         /\ ~HasKey(DictFromItems(h), "Location")
         /\ outcome' = [kind |-> "response", status |-> Some(s),
                        headers |-> h, body |-> Some(b)]
         /\ dispatches' = dispatches + 1
         /\ retry_count' = retry_count
         /\ Terminate("raised",
                      [kind |-> "KeyError", msg |-> <<"Location">>,
                       status_code |-> None, headers |-> <<>>,
                       body |-> None])

(***************************************************************************)
(* lines 100-108: HTTPError without a status                               *)
(***************************************************************************)
RaiseNoStatus ==
    /\ pc = "open"
    /\ \E b \in Bodies :
         /\ outcome' = [kind |-> "HTTPError", status |-> None,
                        headers |-> <<>>, body |-> Some(b)]
         /\ dispatches' = dispatches + 1
         /\ retry_count' = retry_count
         /\ Terminate("raised",
                      HttpError(<<"Unknown HTTP error:", None, None>>,
                                None, Some(b)))

(***************************************************************************)
(* variant of the retry that continues without the sleep of line 122       *)
(***************************************************************************)
RetryLater_NoSleep ==
    /\ pc = "open"
    /\ \E s \in ErrorStatuses, b \in Bodies :
         /\ IsRetryable(s)
         /\ ~BudgetSpent(retry_count + 1, num_retries)
         /\ outcome' = [kind |-> "HTTPError", status |-> Some(s),
                        headers |-> <<>>, body |-> Some(b)]
         /\ dispatches' = dispatches + 1
         /\ retry_count' = retry_count + 1
         /\ UNCHANGED <<caller, url, data, headers, method, num_retries,
                        ssl_compat_mode, result, hop, waits, wait_for, pc>>

(***************************************************************************)
(* lines 110-123: 429 or 5xx with budget left: sleep, then dispatch again  *)
(***************************************************************************)
RetryLater ==
    /\ pc = "open"
    /\ \E s \in ErrorStatuses, b \in Bodies :
         /\ IsRetryable(s)
         /\ ~BudgetSpent(retry_count + 1, num_retries)
         /\ outcome' = [kind |-> "HTTPError", status |-> Some(s),
                        headers |-> <<>>, body |-> Some(b)]
         /\ dispatches' = dispatches + 1
         /\ retry_count' = retry_count + 1
         /\ wait_for' = Some(WaitFor(retry_count + 1))
         /\ pc' = "sleep"
         /\ UNCHANGED <<caller, url, data, headers, method, num_retries,
                        ssl_compat_mode, result, hop, waits>>

(***************************************************************************)
(* variant of the sleep whose continue re-enters the loop at line 91 and   *)
(* resets the retry count                                                  *)
(***************************************************************************)
Sleep_ResetCount ==
    /\ pc = "sleep"
    /\ waits' = Append(waits, Val(wait_for) * SecondsPerMinute)
    /\ wait_for' = None
    /\ retry_count' = 0
    /\ pc' = "open"
    /\ UNCHANGED <<caller, url, data, headers, method, num_retries,
                   ssl_compat_mode, outcome, result, hop, dispatches>>

(***************************************************************************)
(* lines 122-123: sleep(wait_for * 60); continue                           *)
(***************************************************************************)
Sleep ==
    /\ pc = "sleep"
    /\ waits' = Append(waits, SleepSeconds(Val(wait_for)))
    /\ wait_for' = None
    /\ pc' = "open"
    /\ UNCHANGED <<caller, url, data, headers, method, num_retries,
                   ssl_compat_mode, retry_count, outcome, result, hop,
                   dispatches>>

(***************************************************************************)
(* lines 110-118: 429 or 5xx with the budget spent                         *)
(***************************************************************************)
RetriesExceeded ==
    /\ pc = "open"
    /\ \E s \in ErrorStatuses, b \in Bodies :
         /\ IsRetryable(s)
         /\ BudgetSpent(retry_count + 1, num_retries)
         /\ outcome' = [kind |-> "HTTPError", status |-> Some(s),
                        headers |-> <<>>, body |-> Some(b)]
         /\ dispatches' = dispatches + 1
         /\ retry_count' = retry_count + 1
         /\ Terminate("raised",
                      HttpError(<<"Retries Exceeded", None, None>>,
                                Some(s), Some(b)))

(***************************************************************************)
(* lines 124-134: 4xx other than 429                                       *)
(***************************************************************************)
ClientError ==
    /\ pc = "open"
    /\ \E s \in ErrorStatuses, b \in Bodies :
         /\ ~IsRetryable(s)
         /\ IsClientError(s)
         /\ outcome' = [kind |-> "HTTPError", status |-> Some(s),
                        headers |-> <<>>, body |-> Some(b)]
         /\ dispatches' = dispatches + 1
         /\ retry_count' = retry_count
         /\ Terminate("raised", HttpError(ErrMsg(s, url), Some(s), Some(b)))

(***************************************************************************)
(* lines 135-142: any other status of an HTTPError                         *)
(***************************************************************************)
UnknownError ==
    /\ pc = "open"
    /\ \E s \in ErrorStatuses, b \in Bodies :
         /\ ~IsRetryable(s)
         /\ ~IsClientError(s)
         /\ outcome' = [kind |-> "HTTPError", status |-> Some(s),
                        headers |-> <<>>, body |-> Some(b)]
         /\ dispatches' = dispatches + 1
         /\ retry_count' = retry_count
         /\ Terminate("raised",
                      HttpError(<<"Unknown HTTP Error", Some(s), None>>,
                                Some(s), Some(b)))

(***************************************************************************)
(* lines 93-100: opener.open raises an exception which is not an HTTPError *)
(* (urllib.error.URLError); no handler catches it                          *)
(***************************************************************************)
TransportFailure ==
    /\ pc = "open"
    /\ outcome' = [kind |-> "URLError", status |-> None, headers |-> <<>>,
                   body |-> None]
    /\ dispatches' = dispatches + 1
    /\ retry_count' = retry_count
    /\ Terminate("raised",
                 [kind |-> "URLError", msg |-> <<"urlopen error">>,
                  status_code |-> None, headers |-> <<>>, body |-> None])

Next ==
    \/ ReturnResponse
    \/ FollowRedirect
    \/ RedirectKeyError
    \/ RaiseNoStatus
    \/ RetryLater
    \/ Sleep
    \/ RetriesExceeded
    \/ ClientError
    \/ UnknownError
    \/ TransportFailure

Spec == Init /\ [][Next]_vars

(***************************************************************************)
(* line 146 is a nested call: every hop adds a frame of make_request to    *)
(* the interpreter's stack, and the interpreter raises RecursionError when *)
(* its recursion limit is reached.  In StackSpec MaxHops stands for the    *)
(* number of hops the recursion limit leaves room for: the redirect        *)
(* answered to the invocation at that depth raises RecursionError, which   *)
(* no handler catches.                                                     *)
(***************************************************************************)
RecursionOverflow ==
    /\ pc = "open"
    /\ hop = MaxHops
    /\ \E s \in ReturnedStatuses, h \in RespHeaders, b \in Bodies :
         /\ IsRedirect(s)
         /\ HasKey(DictFromItems(h), "Location")
         /\ outcome' = [kind |-> "response", status |-> Some(s),
                        headers |-> h, body |-> Some(b)]
         /\ dispatches' = dispatches + 1
         /\ retry_count' = retry_count
         /\ Terminate("raised",
                      [kind |-> "RecursionError",
                       msg |-> <<"maximum recursion depth exceeded">>,
                       status_code |-> None, headers |-> <<>>,
                       body |-> None])

StackNext ==
    \/ Next
    \/ RecursionOverflow

StackSpec == Init /\ [][StackNext]_vars

(***************************************************************************)
(* The call runs in one thread and blocks in opener.open and in sleep      *)
(* only: as long as the transport answers every request, the step that is  *)
(* enabled is eventually taken.                                            *)
(***************************************************************************)
\* the calls whose headers and method are left to their defaults: neither
\* is read by any test of the loop
FairInit ==
    /\ Init
    /\ caller.headers = None
    /\ caller.method = None

FairSpec == FairInit /\ [][Next]_vars /\ WF_vars(Next)

TypeOK ==
    /\ pc \in {"open", "sleep", "returned", "raised"}
    /\ url \in Urls
    /\ retry_count \in 0..(DefaultNumRetries + MaxBudget + 2)
    /\ hop \in 0..MaxHops
    /\ num_retries \in Nat
    /\ ssl_compat_mode \in BOOLEAN

(***************************************************************************)
(* Vocabulary of the properties                                            *)
(***************************************************************************)
RetryableStatuses == {429} \cup 500..599
PermanentStatuses == 400..499 \ {429}
SuccessStatuses == 200..299
RedirectStatuses == 300..399

AnsweredBy(kind, S) ==
    /\ outcome.kind = kind
    /\ outcome.status # None
    /\ Val(outcome.status) \in S

RaisedHttpError(text) ==
    /\ pc = "raised"
    /\ result.kind = "HttpError"
    /\ result.msg[1] = text

CarriesLastResponse ==
    /\ result.status_code = outcome.status
    /\ result.body = outcome.body

(***************************************************************************)
(* C1 - Retries exhausted.  In an invocation with retry budget             *)
(* num_retries in which every dispatch was answered with 429 or 5xx, the   *)
(* call goes on while at most num_retries dispatches were made, and the    *)
(* dispatch number num_retries + 1 raises the "Retries Exceeded" HttpError *)
(* after exactly num_retries retries and num_retries backoff waits, with   *)
(* the status and body of the last response.  "Retries Exceeded" is raised *)
(* in no other case.                                                       *)
(***************************************************************************)
C1_RetriesExhausted ==
    /\ AnsweredBy("HTTPError", RetryableStatuses) =>
         IF dispatches <= num_retries
         THEN pc \in {"sleep", "open"} /\ result = NoResult
         ELSE /\ RaisedHttpError("Retries Exceeded")
              /\ CarriesLastResponse
              /\ dispatches = num_retries + 1
              /\ retry_count - 1 = num_retries
              /\ Len(waits) = num_retries
    /\ RaisedHttpError("Retries Exceeded") =>
         AnsweredBy("HTTPError", RetryableStatuses)

C1_Witness ==
    /\ RaisedHttpError("Retries Exceeded")
    /\ hop = 0
    /\ num_retries > 0
    /\ Len(waits) = num_retries
    /\ dispatches = num_retries + 1

(***************************************************************************)
(* C2 - Retry then success.  When a dispatch is answered with a 2xx        *)
(* response after k dispatches answered with 429 or 5xx, the call returns  *)
(* that response, k is at most the retry budget, exactly k backoff waits   *)
(* were made and the i-th one lasted 2^i minutes.                          *)
(***************************************************************************)
C2_RetryThenSuccess ==
    AnsweredBy("response", SuccessStatuses) =>
        /\ pc = "returned"
        /\ result.kind = "HttpResponse"
        /\ CarriesLastResponse
        /\ Len(waits) = dispatches - 1
        /\ Len(waits) = retry_count
        /\ Len(waits) <= num_retries
        /\ \A i \in 1..Len(waits) : waits[i] = (2 ^ i) * 60

C2_Witness ==
    /\ pc = "returned"
    /\ AnsweredBy("response", SuccessStatuses)
    /\ Len(waits) >= 2
    /\ waits[1] = 120
    /\ waits[2] = 240

(***************************************************************************)
(* C3 - Permanent client error.  A dispatch answered with a status in      *)
(* [400,500) other than 429 ends the call with an HttpError carrying that  *)
(* status and body: no sleep is pending, no dispatch follows, and every    *)
(* wait of the invocation belongs to a retry made before that response.    *)
(***************************************************************************)
C3_PermanentClientError ==
    AnsweredBy("HTTPError", PermanentStatuses) =>
        /\ RaisedHttpError("HTTP Error")
        /\ CarriesLastResponse
        /\ wait_for = None
        /\ Len(waits) = retry_count
        /\ dispatches = retry_count + 1

C3_Witness ==
    /\ AnsweredBy("HTTPError", PermanentStatuses)
    /\ pc = "raised"
    /\ retry_count > 0
    /\ Val(outcome.status) # 404

(***************************************************************************)
(* C4 - Success passthrough, as stated: when the first dispatch is         *)
(* answered with a 2xx response, the call returns at once, without a wait, *)
(* an HttpResponse with the status, the body and exactly the header fields *)
(* of that response.                                                       *)
(***************************************************************************)
FirstAnsweredOk ==
    /\ hop = 0
    /\ dispatches = 1
    /\ AnsweredBy("response", SuccessStatuses)

ReturnedAtOnce ==
    /\ pc = "returned"
    /\ result.kind = "HttpResponse"
    /\ CarriesLastResponse
    /\ waits = <<>>
    /\ retry_count = 0

FieldsOf(items) == { items[i] : i \in DOMAIN items }

C4_PassthroughIdentical ==
    FirstAnsweredOk =>
        /\ ReturnedAtOnce
        /\ FieldsOf(result.headers) = FieldsOf(outcome.headers)

\* d maps every field name of items to the value of its last occurrence
LastValues(d, items) ==
    /\ \A i \in DOMAIN items : \E j \in DOMAIN d : d[j][1] = items[i][1]
    /\ \A j \in DOMAIN d :
         \E i \in DOMAIN items :
            /\ items[i] = d[j]
            /\ \A k \in DOMAIN items : k > i => items[k][1] # d[j][1]
    /\ \A j, k \in DOMAIN d : j # k => d[j][1] # d[k][1]

(***************************************************************************)
(* C4 amended - as C4, but the headers of the HttpResponse map every field *)
(* name of the response to the value of its last occurrence: an earlier    *)
(* field of the same name is dropped.                                      *)
(***************************************************************************)
C4_PassthroughLastValues ==
    FirstAnsweredOk =>
        /\ ReturnedAtOnce
        /\ LastValues(result.headers, outcome.headers)

C4_Witness ==
    /\ FirstAnsweredOk
    /\ pc = "returned"
    /\ Len(outcome.headers) = 2
    /\ outcome.headers[1][1] = outcome.headers[2][1]
    /\ Len(result.headers) = 1

(***************************************************************************)
(* C5 - Redirect chase.  When a dispatch is answered with a 3xx response   *)
(* carrying a Location field, the call goes on to dispatch a request whose *)
(* url is that (last) Location and whose method, headers and body are      *)
(* those of the request just sent; on a redirect hop a 2xx response is     *)
(* what the call returns.                                                  *)
(***************************************************************************)
HasLocation(items) == \E i \in DOMAIN items : items[i][1] = "Location"

LastLocation(items) ==
    LET last == CHOOSE i \in DOMAIN items :
                   /\ items[i][1] = "Location"
                   /\ \A k \in DOMAIN items :
                        items[k][1] = "Location" => k <= i
    IN  items[last][2]

RedirectAnswer ==
    /\ pc = "open"
    /\ outcome'.kind = "response"
    /\ Val(outcome'.status) \in RedirectStatuses
    /\ HasLocation(outcome'.headers)

C5_Hop ==
    RedirectAnswer =>
        /\ pc' = "open"
        /\ result' = NoResult
        /\ dispatches' = 0
        /\ request'.url = LastLocation(outcome'.headers)
        /\ request'.method = request.method
        /\ request'.headers = request.headers
        /\ request'.data = request.data

C5_Return ==
    ( /\ pc = "open"
      /\ hop > 0
      /\ outcome'.kind = "response"
      /\ Val(outcome'.status) \in SuccessStatuses ) =>
        /\ pc' = "returned"
        /\ result'.kind = "HttpResponse"
        /\ result'.status_code = outcome'.status
        /\ result'.body = outcome'.body

C5_RedirectChase == [][C5_Hop /\ C5_Return]_vars

C5_Witness ==
    /\ hop = 1
    /\ pc = "returned"
    /\ url = "Y"
    /\ data # None
    /\ method = None
    /\ AnsweredBy("response", SuccessStatuses)

(***************************************************************************)
(* C6 - The request spec of every hop equals the caller's except for the   *)
(* url: same body, method, headers, retry budget and SSL mode.             *)
(***************************************************************************)
C6_HopSpecIsCallers ==
    /\ data = caller.data
    /\ method = caller.method
    /\ headers = EnterHeaders(caller.headers)
    /\ num_retries = caller.num_retries
    /\ ssl_compat_mode = caller.ssl_compat_mode
    /\ ssl_context = SslContext(caller.ssl_compat_mode)

(***************************************************************************)
(* C7 - A 3xx outcome, returned or raised, is followed by a re-dispatch    *)
(* and no 3xx status is surfaced, neither in an HttpResponse nor in an     *)
(* HttpError.                                                              *)
(***************************************************************************)
C7_RedirectsNeverSurfaced ==
    /\ ( \/ AnsweredBy("HTTPError", RedirectStatuses)
         \/ /\ AnsweredBy("response", RedirectStatuses)
            /\ HasLocation(outcome.headers) ) =>
          (pc = "open" /\ result = NoResult)
    /\ ~ ( /\ result.kind \in {"HttpResponse", "HttpError"}
           /\ result.status_code # None
           /\ Val(result.status_code) \in RedirectStatuses )

(***************************************************************************)
(* C8 - Every HttpResponse the call returns has a status in [200,299].     *)
(***************************************************************************)
C8_ReturnedStatusIs2xx ==
    result.kind = "HttpResponse" =>
        /\ pc = "returned"
        /\ result.status_code # None
        /\ Val(result.status_code) >= 200
        /\ Val(result.status_code) <= 299

C8_Witness ==
    /\ pc = "returned"
    /\ result.kind = "HttpResponse"
    /\ hop > 0
    /\ retry_count > 0

(***************************************************************************)
(* C9 - A transport failure without a status code ends the call at once    *)
(* with an "Unknown" HttpError whose status_code is absent, without retry  *)
(* or wait.                                                                *)
(***************************************************************************)
C9_NoStatusIsUnknownHttpError ==
    ( /\ outcome.kind \in {"HTTPError", "URLError"}
      /\ outcome.status = None ) =>
        /\ RaisedHttpError("Unknown HTTP error:")
        /\ result.status_code = None
        /\ wait_for = None
        /\ Len(waits) = retry_count

(***************************************************************************)
(* C10 - A failed call surfaces an HttpError and nothing else, and the     *)
(* error carries the status and body of the last response; a returned call *)
(* surfaces an HttpResponse.                                               *)
(***************************************************************************)
C10_FailureIsOneHttpError ==
    /\ pc = "raised" =>
         /\ result.kind = "HttpError"
         /\ CarriesLastResponse
    /\ pc = "returned" => result.kind = "HttpResponse"
    /\ pc \in {"open", "sleep"} => result = NoResult

(***************************************************************************)
(* C11 - 404 message contract, as stated: whenever the call fails on a 404 *)
(* the message contains the url the caller passed, whatever number of      *)
(* redirect hops preceded.                                                 *)
(***************************************************************************)
C11_MessageHasCallersUrl ==
    AnsweredBy("HTTPError", {404}) =>
        /\ RaisedHttpError("HTTP Error")
        /\ result.msg[3] = {caller.url}

(***************************************************************************)
(* C11 amended - whenever the call fails on a 404 the message contains the *)
(* url of the request that was answered with 404: the caller's url when no *)
(* redirect preceded, the Location of the last redirect otherwise.         *)
(***************************************************************************)
C11_MessageHasRequestUrl ==
    AnsweredBy("HTTPError", {404}) =>
        /\ RaisedHttpError("HTTP Error")
        /\ result.msg[2] = {404}
        /\ result.msg[3] = {request.url}
        /\ hop = 0 => result.msg[3] = {caller.url}

C11_Witness ==
    /\ AnsweredBy("HTTPError", {404})
    /\ pc = "raised"
    /\ hop > 0
    /\ url # caller.url
    /\ result.msg[3] = {url}

(***************************************************************************)
(* C12 - Content-Type invariant.  The request of every dispatch carries    *)
(* exactly one Content-Type field; its value is the one the caller         *)
(* supplied under that name in any letter case, and the default            *)
(* "application/json; charset=utf8" when the caller supplied none.         *)
(***************************************************************************)
ContentTypeNames == {"Content-Type", "content-type", "Content-type"}

CallerContentTypes ==
    IF caller.headers = None THEN {}
    ELSE LET h == Val(caller.headers)
         IN  { h[i][2] : i \in { j \in DOMAIN h : h[j][1] \in ContentTypeNames } }

SentContentTypes ==
    { request.headers[i][2] :
        i \in { j \in DOMAIN request.headers :
                  request.headers[j][1] \in ContentTypeNames } }

C12_ContentTypeInvariant ==
    /\ Cardinality({ j \in DOMAIN request.headers :
                       request.headers[j][1] \in ContentTypeNames }) = 1
    /\ SentContentTypes =
         IF CallerContentTypes = {}
         THEN {"application/json; charset=utf8"}
         ELSE CallerContentTypes

(***************************************************************************)
(* C13 - A 3xx response without a Location field ends the call with an     *)
(* "Unknown" HttpError, and no dispatch follows.                           *)
(***************************************************************************)
C13_MissingLocationIsUnknownError ==
    ( /\ AnsweredBy("response", RedirectStatuses)
      /\ ~HasLocation(outcome.headers) ) =>
        /\ pc = "raised"
        /\ result.kind = "HttpError"
        /\ result.msg[1] \in {"Unknown HTTP error:", "Unknown HTTP Error"}

(***************************************************************************)
(* C14 - A redirect resets the retry state.  The step that follows a       *)
(* redirect starts the hop with retry count 0 and no wait made; the first  *)
(* wait of every hop lasts 2^1 minutes; and on a redirect hop a 429 or 5xx *)
(* answer is retried as long as the hop made at most num_retries           *)
(* dispatches, "Retries Exceeded" coming only with dispatch number         *)
(* num_retries + 1 of the hop.                                             *)
(***************************************************************************)
C14_Reset ==
    hop' = hop + 1 =>
        /\ retry_count' = 0
        /\ wait_for' = None
        /\ waits' = <<>>
        /\ dispatches' = 0
        /\ pc' = "open"

C14_FirstWait ==
    (pc = "sleep" /\ waits = <<>>) => waits' = <<2 * 60>>

C14_WholeBudget ==
    ( /\ pc = "open"
      /\ hop' > 0
      /\ outcome'.kind = "HTTPError"
      /\ outcome'.status # None
      /\ Val(outcome'.status) \in RetryableStatuses ) =>
        IF dispatches' <= num_retries'
        THEN pc' = "sleep" /\ retry_count' = dispatches'
        ELSE /\ pc' = "raised"
             /\ result'.msg[1] = "Retries Exceeded"
             /\ dispatches' = num_retries' + 1

C14_RedirectResetsRetries ==
    [][C14_Reset /\ C14_FirstWait /\ C14_WholeBudget]_vars

C14_Witness ==
    /\ hop > 0
    /\ RaisedHttpError("Retries Exceeded")
    /\ Len(waits) = num_retries
    /\ num_retries > 0
    /\ waits[1] = 120

(***************************************************************************)
(* C15 - A retry re-dispatches the same request.  From a dispatch answered *)
(* with 429 or 5xx, through the sleep, to the next dispatch of the hop,    *)
(* the url, method, body and headers of the request, the retry budget and  *)
(* the SSL mode do not change, and the retry count grows by exactly 1.     *)
(***************************************************************************)
SameRequestSpec ==
    /\ request' = request
    /\ num_retries' = num_retries
    /\ ssl_compat_mode' = ssl_compat_mode
    /\ ssl_context' = ssl_context
    /\ hop' = hop

C15_Retry ==
    (pc = "open" /\ pc' = "sleep") =>
        /\ SameRequestSpec
        /\ retry_count' = retry_count + 1
        /\ dispatches' = dispatches + 1

C15_Sleep ==
    pc = "sleep" =>
        /\ pc' = "open"
        /\ SameRequestSpec
        /\ retry_count' = retry_count
        /\ dispatches' = dispatches

C15_RetrySameRequest == [][C15_Retry /\ C15_Sleep]_vars

C15_Witness ==
    /\ pc = "open"
    /\ hop = 0
    /\ dispatches = 2
    /\ retry_count = 2
    /\ data # None
    /\ AnsweredBy("HTTPError", RetryableStatuses)

(***************************************************************************)
(* C16 - Catch-all classification.  An outcome whose status lies outside   *)
(* [200,600) ends the call at once with an "Unknown" HttpError carrying    *)
(* that status and the body; it is not retried, no sleep follows, and no   *)
(* HttpResponse carries such a status.                                     *)
(***************************************************************************)
OutOfTaxonomy(o) ==
    /\ o # None
    /\ (Val(o) < 200 \/ Val(o) >= 600)

C16_CatchAllIsUnknownError ==
    /\ ( outcome.kind \in {"response", "HTTPError"}
         /\ OutOfTaxonomy(outcome.status) ) =>
          /\ RaisedHttpError("Unknown HTTP Error")
          /\ result.msg[2] = outcome.status
          /\ CarriesLastResponse
          /\ wait_for = None
          /\ Len(waits) = retry_count
          /\ dispatches = retry_count + 1
    /\ ~ (result.kind = "HttpResponse" /\ OutOfTaxonomy(result.status_code))

C16_Witness ==
    /\ RaisedHttpError("Unknown HTTP Error")
    /\ outcome.kind = "HTTPError"
    /\ OutOfTaxonomy(outcome.status)
    /\ Val(outcome.status) < 200
    /\ retry_count > 0

(***************************************************************************)
(* C17 - Termination by the retry budget.  With at most MaxHops redirects  *)
(* and a transport that answers every request, every call eventually       *)
(* returns or raises, and no hop makes more than num_retries + 1           *)
(* dispatches.                                                             *)
(***************************************************************************)
C17_Terminates ==
    /\ <>(pc \in {"returned", "raised"})
    /\ [](dispatches <= num_retries + 1)

C17_Witness ==
    /\ pc \in {"returned", "raised"}
    /\ hop > 0
    /\ num_retries > 0
    /\ dispatches = num_retries + 1

C18_Followed ==
    (RedirectAnswer /\ hop < MaxHops) =>
        /\ pc' = "open"
        /\ hop' = hop + 1
        /\ dispatches' = 0
        /\ result' = NoResult

C18_Overflow ==
    (RedirectAnswer /\ hop = MaxHops) =>
        /\ pc' = "raised"
        /\ result'.kind = "RecursionError"
        /\ hop' = hop

C18_Returned ==
    ( /\ pc = "open"
      /\ outcome'.kind = "response"
      /\ Val(outcome'.status) \in SuccessStatuses ) =>
        /\ pc' = "returned"
        /\ result'.kind = "HttpResponse"
        /\ result'.status_code = outcome'.status
        /\ hop' = hop

C19_RetryCounterRange ==
    /\ retry_count >= 0
    /\ retry_count <= num_retries + 1
    /\ pc = "sleep" =>
         /\ retry_count >= 1
         /\ retry_count <= num_retries
         /\ wait_for = {2 ^ retry_count}
    /\ \A i \in DOMAIN waits : waits[i] <= (2 ^ num_retries) * 60
    /\ retry_count = num_retries + 1 => RaisedHttpError("Retries Exceeded")

C19_Witness ==
    /\ pc = "sleep"
    /\ retry_count = num_retries
    /\ Len(waits) = num_retries - 1
    /\ num_retries > 1
    /\ wait_for = {2 ^ num_retries}

(***************************************************************************)
(* C20 - Ordering of waits and dispatches.  A dispatch other than the      *)
(* first of its hop is reached only through exactly one wait; a wait       *)
(* starts only after a dispatch answered with 429 or 5xx and leads to the  *)
(* next dispatch; every return, every raise and every first dispatch of a  *)
(* redirect hop is reached from a dispatch, without a wait.                *)
(***************************************************************************)
C20_LaterDispatch ==
    (pc' = "open" /\ dispatches' > 0) =>
        /\ pc = "sleep"
        /\ waits' = Append(waits, waits'[Len(waits')])
        /\ Len(waits') = dispatches'

C20_Wait ==
    pc = "sleep" =>
        /\ AnsweredBy("HTTPError", RetryableStatuses)
        /\ pc' = "open"
        /\ outcome' = outcome
        /\ dispatches' = dispatches

C20_WaitStarts ==
    pc' = "sleep" =>
        /\ pc = "open"
        /\ outcome'.kind = "HTTPError"
        /\ outcome'.status # None
        /\ Val(outcome'.status) \in RetryableStatuses
        /\ dispatches' = dispatches + 1
        /\ waits' = waits

C20_NoWaitBeforeEnd ==
    pc' \in {"returned", "raised"} =>
        /\ pc = "open"
        /\ dispatches' = dispatches + 1
        /\ waits' = waits
        /\ wait_for' = None

C20_NoWaitBeforeHop ==
    hop' # hop =>
        /\ pc = "open"
        /\ pc' = "open"
        /\ waits' = <<>>
        /\ wait_for' = None

C20_WaitsAndDispatchesAlternate ==
    [][ /\ C20_LaterDispatch
        /\ C20_Wait
        /\ C20_WaitStarts
        /\ C20_NoWaitBeforeEnd
        /\ C20_NoWaitBeforeHop ]_vars

C20_Witness ==
    /\ pc = "open"
    /\ hop > 0
    /\ dispatches = 2
    /\ Len(waits) = 2
    /\ AnsweredBy("HTTPError", RetryableStatuses)

=============================================================================
